---- MODULE Spec2Model ----
(***************************************************************************)
(* Model of src/app.py: FinanceEngine (distribute_amount, simplify_debts)  *)
(* and ExpenseService (create_expense, create_repayment, delete_expense,   *)
(* get_balances) over the expenses / splits tables.                        *)
(*                                                                         *)
(* Three specifications share the variables:                               *)
(*   SpecAlloc    one call of FinanceEngine.distribute_amount              *)
(*   SpecSimplify one call of FinanceEngine.simplify_debts, the matching   *)
(*                loop taken one iteration per step                        *)
(*   SpecService  sequences of ExpenseService calls on the tables          *)
(* In each, the variables of the other two components stay idle.           *)
(***************************************************************************)
EXTENDS Integers, Sequences, FiniteSets, TLC

VARIABLES
    \* FinanceEngine.distribute_amount
    apc,            \* "idle" | "call" | "returned" | "IndexError"
    total_cents,    \* argument
    weights,        \* argument: sequence of non-negative integers
    amounts,        \* the returned list
    \* FinanceEngine.simplify_debts
    spc,            \* "idle" | "partition" | "loop" | "returned"
    net_balances,   \* argument: dict, as the sequence of <<person, amount>> in insertion order
    debtors,        \* heap of <<amount, person>>, amount < -1
    creditors,      \* heap of <<-amount, person>>, amount > 1
    transactions,   \* list of [from, to, amount]
    \* ExpenseService over the database
    expenses,       \* table expenses: sequence indexed by id of [group_id, is_deleted]
                    \* (the columns no modelled operation reads are left out)
    splits,         \* table splits: set of [expense_id, user_id, paid_amount, owed_amount]
    ret,            \* what the last service call returned
    ledger          \* history: per created expense id, the paid/owed maps it was created with

vars == <<apc, total_cents, weights, amounts,
          spc, net_balances, debtors, creditors, transactions,
          expenses, splits, ret, ledger>>

allocVars    == <<apc, total_cents, weights, amounts>>
simplifyVars == <<spc, net_balances, debtors, creditors, transactions>>
serviceVars  == <<expenses, splits, ret, ledger>>

-----------------------------------------------------------------------------
(* Bounds of the model *)

MaxTotal == 5
MaxLen == 3
MaxWeight == 2
NumPersons == 3
MaxBalance == 4
MaxCents == 1
MaxExpenses == 1

-----------------------------------------------------------------------------
(* Helpers standing for Python built-ins *)

RECURSIVE SumSeq(_)
SumSeq(s) == IF s = <<>> THEN 0 ELSE Head(s) + SumSeq(Tail(s))

Min(a, b) == IF a <= b THEN a ELSE b

Abs(x) == IF x < 0 THEN -x ELSE x

\* int(a / b): true division followed by truncation toward zero.  For
\* 0 <= a < 2^53 and b > 0 the double quotient truncates to the exact floor.
IntTrueDiv(a, b) == a \div b

-----------------------------------------------------------------------------
(* FinanceEngine.distribute_amount *)

\* the provisional shares of the first loop
Shares(total, ws) ==
    [i \in 1..Len(ws) |-> IntTrueDiv(total * ws[i], SumSeq(ws))]

\* mutant: the remainder is computed but never handed out
AddRemainderDropped(shares, remainder) == shares

\* for i in range(remainder): amounts[i] += 1   (positions are 0-based in the
\* source, 1-based here); a negative remainder is an empty range
AddRemainder(shares, remainder) ==
    [i \in 1..Len(shares) |-> IF i <= remainder THEN shares[i] + 1 ELSE shares[i]]

\* the list distribute_amount returns (when it returns)
distribute_amount(total, ws) ==
    IF SumSeq(ws) = 0
    THEN [i \in 1..Len(ws) |-> 0]
    ELSE LET shares == Shares(total, ws)
             remainder == total - SumSeq(shares)
         IN AddRemainder(shares, remainder)

\* amounts[i] raises IndexError once i reaches len(amounts)
DistributeRaises(total, ws) ==
    /\ SumSeq(ws) # 0
    /\ total - SumSeq(Shares(total, ws)) > Len(ws)

WeightSeqs == UNION {[1..n -> 0..MaxWeight] : n \in 0..MaxLen}

InitAllocArgs ==
    /\ apc = "call"
    /\ total_cents \in 0..MaxTotal
    /\ weights \in WeightSeqs
    /\ amounts = <<>>

AllocIdle ==
    /\ apc = "idle"
    /\ total_cents = 0
    /\ weights = <<>>
    /\ amounts = <<>>

Distribute ==
    /\ apc = "call"
    /\ IF DistributeRaises(total_cents, weights)
       THEN /\ apc' = "IndexError"
            /\ amounts' = <<>>
       ELSE /\ apc' = "returned"
            /\ amounts' = distribute_amount(total_cents, weights)
    /\ UNCHANGED <<total_cents, weights>>

-----------------------------------------------------------------------------
(* FinanceEngine.simplify_debts *)

Persons == 1..NumPersons

\* mutant: entries are compared by amount only, so that equal amounts leave
\* the heap in the order they entered it
TupleLessAmountOnly(a, b) == a[1] < b[1]

\* Python orders the heap entries (amount, person) as tuples: by amount, and
\* among equal amounts by person (user names compare as strings; the persons
\* of the model are numbered in that order)
TupleLess(a, b) == a[1] < b[1] \/ (a[1] = b[1] /\ a[2] < b[2])

\* heapq.heappush: the heap is kept as the sequence of its entries
heappush(h, e) == Append(h, e)

\* position of the entry heapq.heappop returns: a least entry of the heap
HeapTopIndex(h) ==
    CHOOSE i \in 1..Len(h) :
        /\ \A j \in 1..Len(h) : ~TupleLess(h[j], h[i])
        /\ \A j \in 1..(i - 1) : TupleLess(h[i], h[j])

HeapTop(h) == h[HeapTopIndex(h)]

\* the heap left by heapq.heappop
heappop(h) ==
    LET k == HeapTopIndex(h)
    IN [i \in 1..(Len(h) - 1) |-> IF i < k THEN h[i] ELSE h[i + 1]]

\* for person, amount in net_balances.items(): push debtors / creditors
RECURSIVE PartitionDebtors(_)
PartitionDebtors(items) ==
    IF items = <<>> THEN <<>>
    ELSE LET rest == PartitionDebtors(SubSeq(items, 1, Len(items) - 1))
             it == items[Len(items)]
         IN IF it[2] < -1 THEN heappush(rest, <<it[2], it[1]>>) ELSE rest

RECURSIVE PartitionCreditors(_)
PartitionCreditors(items) ==
    IF items = <<>> THEN <<>>
    ELSE LET rest == PartitionCreditors(SubSeq(items, 1, Len(items) - 1))
             it == items[Len(items)]
         IN IF ~(it[2] < -1) /\ it[2] > 1
            THEN heappush(rest, <<-it[2], it[1]>>) ELSE rest

\* mutant: the pair is settled one unit at a time
MatchAmountUnit(debt_amt, credit_amt) == 1

\* mutant: the larger of the two magnitudes is transferred
MatchAmountMax(debt_amt, credit_amt) ==
    IF -debt_amt >= -credit_amt THEN -debt_amt ELSE -credit_amt

\* amount = min(-debt_amt, -credit_amt)
MatchAmount(debt_amt, credit_amt) == Min(-debt_amt, -credit_amt)

\* mutant: a party is pushed back even when nothing remains
StillOpenInclusive(remain) == remain <= 0

\* lines 132-133: a party goes back on its heap while more than one unit remains
StillOpen(remain) == remain < -1

\* dicts over all the persons, in every insertion order
Orders == {o \in [1..NumPersons -> Persons] :
              \A i, j \in 1..NumPersons : i # j => o[i] # o[j]}

InitSimplifyArgs ==
    /\ spc = "partition"
    /\ \E o \in Orders, b \in [Persons -> (-MaxBalance)..MaxBalance] :
          net_balances = [i \in 1..NumPersons |-> <<o[i], b[o[i]]>>]
    /\ debtors = <<>>
    /\ creditors = <<>>
    /\ transactions = <<>>

SimplifyIdle ==
    /\ spc = "idle"
    /\ net_balances = <<>>
    /\ debtors = <<>>
    /\ creditors = <<>>
    /\ transactions = <<>>

\* lines 116-122: build the two heaps
Partition ==
    /\ spc = "partition"
    /\ debtors' = PartitionDebtors(net_balances)
    /\ creditors' = PartitionCreditors(net_balances)
    /\ transactions' = <<>>
    /\ spc' = "loop"
    /\ UNCHANGED net_balances

\* lines 123-133: one iteration of the matching loop
SettleStep ==
    /\ spc = "loop"
    /\ debtors # <<>> /\ creditors # <<>>
    /\ LET d == HeapTop(debtors)
           c == HeapTop(creditors)
           debt_amt == d[1]
           debtor == d[2]
           credit_amt == c[1]
           creditor == c[2]
           amount == MatchAmount(debt_amt, credit_amt)
           remain_debt == debt_amt + amount
           remain_credit == credit_amt + amount
       IN /\ transactions' = Append(transactions,
                 [from |-> debtor, to |-> creditor, amount |-> amount])
          /\ debtors' = IF StillOpen(remain_debt)
                        THEN heappush(heappop(debtors), <<remain_debt, debtor>>)
                        ELSE heappop(debtors)
          /\ creditors' = IF StillOpen(remain_credit)
                          THEN heappush(heappop(creditors), <<remain_credit, creditor>>)
                          ELSE heappop(creditors)
    /\ UNCHANGED <<spc, net_balances>>

\* line 134: the loop condition fails, return transactions
SimplifyReturn ==
    /\ spc = "loop"
    /\ (debtors = <<>> \/ creditors = <<>>)
    /\ spc' = "returned"
    /\ UNCHANGED <<net_balances, debtors, creditors, transactions>>

-----------------------------------------------------------------------------
(* ExpenseService over the tables expenses and splits *)

\* users.id (users.username is unique, so a user stands for its name) and groups.id
Users == {"ann", "bob"}
Groups == {"g1", "g2"}

\* dict.get(k, 0)
DictGet(d, k) == IF k \in DOMAIN d THEN d[k] ELSE 0

\* sum(d.values())
RECURSIVE SumDict(_)
SumDict(d) ==
    IF DOMAIN d = {} THEN 0
    ELSE LET k == CHOOSE x \in DOMAIN d : TRUE
         IN d[k] + SumDict([x \in DOMAIN d \ {k} |-> d[x]])

\* line 186: the check that rejects a call (return False, "unbalanced accounts")
Unbalanced(total, payer_splits, ower_splits) ==
    \/ Abs(SumDict(payer_splits) - total) > 1
    \/ Abs(SumDict(ower_splits) - total) > 1

\* lines 198-203: the Split rows added for one expense
SplitRows(exp_id, payer_splits, ower_splits) ==
    LET all_users == DOMAIN payer_splits \cup DOMAIN ower_splits
    IN {[expense_id |-> exp_id, user_id |-> uid,
         paid_amount |-> DictGet(payer_splits, uid),
         owed_amount |-> DictGet(ower_splits, uid)] :
           uid \in {u \in all_users :
                       DictGet(payer_splits, u) > 0 \/ DictGet(ower_splits, u) > 0}}

\* mutant: the is_deleted filter is forgotten
ActiveExpensesUnfiltered(group_id) ==
    {id \in 1..Len(expenses) : expenses[id].group_id = group_id}

\* query(Expense).filter_by(group_id=group_id, is_deleted=False)
ActiveExpenses(group_id) ==
    {id \in 1..Len(expenses) :
        expenses[id].group_id = group_id /\ expenses[id].is_deleted = FALSE}

RECURSIVE SumRows(_)
SumRows(rows) ==
    IF rows = {} THEN 0
    ELSE LET r == CHOOSE x \in rows : TRUE
         IN (r.paid_amount - r.owed_amount) + SumRows(rows \ {r})

\* lines 235-245: the defaultdict get_balances returns, keyed by the users
\* that have a split in an active expense of the group
get_balances(group_id) ==
    LET rows == {s \in splits : s.expense_id \in ActiveExpenses(group_id)}
    IN [u \in {s.user_id : s \in rows} |->
           SumRows({s \in rows : s.user_id = u})]

\* the argument dicts the form builds: payer entries are positive (lines 394,
\* 399), ower entries may be 0 (line 414); amounts above MaxCents + 1 can only
\* be rejected by line 186
PayerDicts == UNION {[S -> 1..(MaxCents + 1)] : S \in SUBSET Users}
OwerDicts == UNION {[S -> 0..(MaxCents + 1)] : S \in SUBSET Users}

Total(d) == [u \in Users |-> DictGet(d, u)]

InitService ==
    /\ expenses = <<>>
    /\ splits = {}
    /\ ret = "none"
    /\ ledger = <<>>

\* lines 185-212; commit_ok = FALSE is the except branch (rollback)
create_expense(total, group_id, payer_splits, ower_splits, commit_ok) ==
    IF Unbalanced(total, payer_splits, ower_splits)
    THEN /\ ret' = "unbalanced"
         /\ UNCHANGED <<expenses, splits, ledger>>
    ELSE IF ~commit_ok
    THEN /\ ret' = "exception"
         /\ UNCHANGED <<expenses, splits, ledger>>
    ELSE LET exp_id == Len(expenses) + 1
         IN /\ expenses' = Append(expenses,
                   [group_id |-> group_id, is_deleted |-> FALSE])
            /\ splits' = splits \cup SplitRows(exp_id, payer_splits, ower_splits)
            /\ ledger' = Append(ledger,
                   [group_id |-> group_id, paid |-> Total(payer_splits),
                    owed |-> Total(ower_splits), deleted |-> FALSE])
            /\ ret' = "success"

CreateExpense ==
    /\ Len(expenses) < MaxExpenses
    /\ \E total \in 0..MaxCents, group_id \in Groups,
          payer_splits \in PayerDicts, ower_splits \in OwerDicts,
          commit_ok \in BOOLEAN :
            create_expense(total, group_id, payer_splits, ower_splits, commit_ok)

\* lines 215-218
CreateRepayment ==
    /\ Len(expenses) < MaxExpenses
    /\ \E payer_id \in Users, receiver_id \in Users, amount_cents \in 1..MaxCents,
          group_id \in Groups, commit_ok \in BOOLEAN :
            create_expense(amount_cents, group_id,
                           [u \in {payer_id} |-> amount_cents],
                           [u \in {receiver_id} |-> amount_cents], commit_ok)

\* lines 221-232
DeleteExpense ==
    \E exp_id \in 1..MaxExpenses :
        IF exp_id \in 1..Len(expenses)
        THEN /\ expenses' = [expenses EXCEPT ![exp_id].is_deleted = TRUE]
             /\ ledger' = [ledger EXCEPT ![exp_id].deleted = TRUE]
             /\ ret' = "deleted"
             /\ UNCHANGED splits
        ELSE /\ ret' = "not found"
             /\ UNCHANGED <<expenses, splits, ledger>>

-----------------------------------------------------------------------------
(* Specifications *)

InitAlloc == InitAllocArgs /\ SimplifyIdle /\ InitService
NextAlloc == Distribute /\ UNCHANGED <<simplifyVars, serviceVars>>
SpecAlloc == InitAlloc /\ [][NextAlloc]_vars

InitSimplify == AllocIdle /\ InitSimplifyArgs /\ InitService
NextSimplify ==
    \/ Partition /\ UNCHANGED <<allocVars, serviceVars>>
    \/ SettleStep /\ UNCHANGED <<allocVars, serviceVars>>
    \/ SimplifyReturn /\ UNCHANGED <<allocVars, serviceVars>>
SpecSimplify == InitSimplify /\ [][NextSimplify]_vars
\* the call is synchronous straight-line code: it always takes its next step
LiveSimplify == SpecSimplify /\ WF_vars(NextSimplify)

InitServiceSpec == AllocIdle /\ SimplifyIdle /\ InitService
NextService ==
    \/ CreateExpense /\ UNCHANGED <<allocVars, simplifyVars>>
    \/ CreateRepayment /\ UNCHANGED <<allocVars, simplifyVars>>
    \/ DeleteExpense /\ UNCHANGED <<allocVars, simplifyVars>>
SpecService == InitServiceSpec /\ [][NextService]_vars

-----------------------------------------------------------------------------
(* FinanceEngine.distribute_amount: properties *)

AllocEnded == apc \in {"returned", "IndexError"}

ZeroWeightGetsNothing ==
    apc = "returned" =>
        \A i \in 1..Len(weights) : weights[i] = 0 => amounts[i] = 0

-----------------------------------------------------------------------------
(* FinanceEngine.simplify_debts: properties *)

\* net_balances[person]
Balance(p) ==
    LET i == CHOOSE k \in 1..Len(net_balances) : net_balances[k][1] = p
    IN net_balances[i][2]

\* position of the person in the iteration order of net_balances
Position(p) == CHOOSE k \in 1..Len(net_balances) : net_balances[k][1] = p

RECURSIVE PaidBy(_, _)
PaidBy(p, txs) ==
    IF txs = <<>> THEN 0
    ELSE (IF Head(txs).from = p THEN Head(txs).amount ELSE 0) + PaidBy(p, Tail(txs))

RECURSIVE ReceivedBy(_, _)
ReceivedBy(p, txs) ==
    IF txs = <<>> THEN 0
    ELSE (IF Head(txs).to = p THEN Head(txs).amount ELSE 0) + ReceivedBy(p, Tail(txs))

\* the balance of p once every emitted transaction is applied to the input:
\* balance[from] += amount, balance[to] -= amount
Residual(p) == Balance(p) + PaidBy(p, transactions) - ReceivedBy(p, transactions)

InputSum == SumSeq([i \in 1..Len(net_balances) |-> net_balances[i][2]])

InputCreditors == {p \in Persons : Balance(p) > 1}
InputDebtors == {p \in Persons : Balance(p) < -1}

\* the matching loop is over
LoopEnded == spc \notin {"idle", "partition", "loop"}

\* C3: for balances that sum to zero, applying every returned transaction
\* leaves every participant within one unit of zero
SettlementReachesThreshold ==
    (spc = "returned" /\ InputSum = 0) =>
        \A p \in Persons : Abs(Residual(p)) <= 1

\* C5 as stated: the number of transactions is at most
\* #creditors + #debtors - 1, for every balance mapping
TransactionBound ==
    spc = "returned" =>
        Len(transactions) <= Cardinality(InputCreditors) + Cardinality(InputDebtors) - 1

\* C5 amended: the bound holds whenever the mapping has a creditor or a
\* debtor; a mapping with neither yields no transaction
TransactionBoundNonEmpty ==
    spc = "returned" =>
        IF InputCreditors = {} /\ InputDebtors = {}
        THEN transactions = <<>>
        ELSE Len(transactions) <=
                 Cardinality(InputCreditors) + Cardinality(InputDebtors) - 1

\* three parties settled with exactly two transactions, the creditor pushed back
TransactionBoundWitness ==
    /\ spc = "returned"
    /\ Cardinality(InputCreditors) + Cardinality(InputDebtors) = 3
    /\ Len(transactions) = 2
    /\ transactions[1].from # transactions[2].from
    /\ transactions[1].to = transactions[2].to

\* C6: when the loop ends on balances that do not sum to zero with a
\* participant still outside the threshold, simplify_debts fails with an
\* invariant-violation error instead of returning the partial list
NonConvergenceFails ==
    (LoopEnded /\ InputSum # 0 /\ \E p \in Persons : Abs(Residual(p)) > 1) =>
        spc = "InvariantViolationError"

\* the step just taken emitted a transaction
Emitted == spc = "loop" /\ Len(transactions') = Len(transactions) + 1

LastTx == transactions'[Len(transactions')]

\* the persons of the heap whose entry has the least amount
Extreme(h) ==
    {h[i][2] : i \in {k \in 1..Len(h) : \A j \in 1..Len(h) : h[k][1] <= h[j][1]}}

\* C8 as stated: among debtors (creditors) of equal magnitude the one that
\* comes first in the insertion order of the balance mapping is matched first
TieBreakInsertionOrder ==
    [][Emitted =>
         /\ LastTx.from \in Extreme(debtors)
         /\ \A q \in Extreme(debtors) : Position(LastTx.from) <= Position(q)
         /\ LastTx.to \in Extreme(creditors)
         /\ \A q \in Extreme(creditors) : Position(LastTx.to) <= Position(q)]_vars

\* C8 amended: among debtors (creditors) of equal magnitude the one with the
\* least identity is matched first, whatever the insertion order
TieBreakIdentityOrder ==
    [][Emitted =>
         /\ LastTx.from \in Extreme(debtors)
         /\ \A q \in Extreme(debtors) : LastTx.from <= q
         /\ LastTx.to \in Extreme(creditors)
         /\ \A q \in Extreme(creditors) : LastTx.to <= q]_vars

\* two debtors of equal magnitude, the later inserted one matched first
TieBreakWitness ==
    /\ spc = "returned"
    /\ net_balances = << <<2, -2>>, <<1, -2>>, <<3, 4>> >>
    /\ transactions = << [from |-> 1, to |-> 3, amount |-> 2],
                         [from |-> 2, to |-> 3, amount |-> 2] >>

\* C9: every iteration of the matching loop strictly decreases the number of
\* parties held in the two queues, and the loop ends
LoopTerminates ==
    /\ [][Emitted => Len(debtors') + Len(creditors') < Len(debtors) + Len(creditors)]_vars
    /\ <>(spc = "returned")

\* a party was pushed back with its residual and the loop goes on
LoopTerminatesWitness ==
    /\ spc = "loop"
    /\ transactions # <<>>
    /\ debtors # <<>>
    /\ \E i \in 1..Len(creditors) : -creditors[i][1] # Balance(creditors[i][2])

-----------------------------------------------------------------------------
(* ExpenseService: properties *)

\* the Split rows of one expense
RowsOf(exp_id) == {s \in splits : s.expense_id = exp_id}

RECURSIVE SumPaid(_)
SumPaid(rows) ==
    IF rows = {} THEN 0
    ELSE LET r == CHOOSE x \in rows : TRUE
         IN r.paid_amount + SumPaid(rows \ {r})

RECURSIVE SumOwed(_)
SumOwed(rows) ==
    IF rows = {} THEN 0
    ELSE LET r == CHOOSE x \in rows : TRUE
         IN r.owed_amount + SumOwed(rows \ {r})

\* C4: after any sequence of create_expense, create_repayment and
\* delete_expense calls the values of get_balances(group) sum to zero
BalancesSumToZero ==
    \A g \in Groups : SumDict(get_balances(g)) = 0

\* C7: create_expense never persists an unbalanced record: every stored
\* expense has |sum(paid) - sum(owed)| <= 1
StoredRecordsBalanced ==
    \A id \in 1..Len(expenses) :
        Abs(SumPaid(RowsOf(id)) - SumOwed(RowsOf(id))) <= 1

\* paid - owed of user u summed over the expenses of group g that were
\* created and not since deleted
RECURSIVE LedgerBalance(_, _, _)
LedgerBalance(g, u, n) ==
    IF n = 0 THEN 0
    ELSE LedgerBalance(g, u, n - 1) +
         (IF ledger[n].group_id = g /\ ~ledger[n].deleted
          THEN ledger[n].paid[u] - ledger[n].owed[u] ELSE 0)

-----------------------------------------------------------------------------
(* FinanceEngine.simplify_debts: no overshoot *)

TxIndexes == 1..Len(transactions)

\* C11: at every step of the matching loop, a participant is a 'from' only
\* if its input balance is < -1 and a 'to' only if its input balance is > 1
\* (never both, never from = to); what a debtor has paid never exceeds the
\* magnitude of its input balance, what a creditor has received never
\* exceeds its input balance, and no balance changes sign
NeverOvershoots ==
    spc \in {"loop", "returned"} =>
        /\ \A i \in TxIndexes :
              /\ Balance(transactions[i].from) < -1
              /\ Balance(transactions[i].to) > 1
              /\ transactions[i].from # transactions[i].to
        /\ \A p \in Persons :
              /\ ~(\E i, j \in TxIndexes :
                      transactions[i].from = p /\ transactions[j].to = p)
              /\ Balance(p) < 0 => PaidBy(p, transactions) <= -Balance(p)
              /\ Balance(p) > 0 => ReceivedBy(p, transactions) <= Balance(p)
              /\ Balance(p) < 0 => Residual(p) <= 0
              /\ Balance(p) > 0 => Residual(p) >= 0
              /\ Balance(p) = 0 => Residual(p) = 0

\* a debtor was pushed back and paid two creditors in turn: each payment is
\* less than its input balance and together they reach it exactly
NeverOvershootsWitness ==
    /\ spc = "returned"
    /\ Len(transactions) = 2
    /\ transactions[1].from = transactions[2].from
    /\ transactions[1].to # transactions[2].to
    /\ PaidBy(transactions[1].from, transactions) = -Balance(transactions[1].from)
    /\ transactions[1].amount < -Balance(transactions[1].from)
    /\ Residual(transactions[1].from) = 0

====
